---- MODULE Spec2Model ----
(***************************************************************************)
(* Model of app.py: a menu-driven task manager with user authentication.   *)
(* Persisted state is users.json (username -> password hash) and one task  *)
(* document per user under tasks/.  A session is one run of run_app(); its *)
(* position is the input() call it is blocked on.  Strings that reach      *)
(* .strip() or int() are sequences of one-character strings.               *)
(***************************************************************************)
EXTENDS Integers, Sequences, FiniteSets, TLC

\* ------------------------------------------------------------------ bounds
\* Largest task id an add may issue (caps the unbounded id counter).
MaxId == 3

\* ------------------------------------------------------------ string model
Digits == <<"0", "1", "2", "3", "4", "5", "6", "7", "8", "9">>

IsDigit(c) == \E i \in 1..10 : Digits[i] = c

DigitVal(c) == (CHOOSE i \in 1..10 : Digits[i] = c) - 1

\* str.strip(): drops leading and trailing whitespace.
RECURSIVE LStrip(_)
LStrip(str) ==
    IF str # <<>> /\ Head(str) = " " THEN LStrip(Tail(str)) ELSE str

RECURSIVE RStrip(_)
RStrip(str) ==
    IF str # <<>> /\ str[Len(str)] = " "
    THEN RStrip(SubSeq(str, 1, Len(str) - 1))
    ELSE str

Strip(str) == LStrip(RStrip(str))

RECURSIVE DecimalValue(_)
DecimalValue(str) ==
    IF str = <<>> THEN 0
    ELSE 10 * DecimalValue(SubSeq(str, 1, Len(str) - 1)) + DigitVal(str[Len(str)])

AllDigits(str) == str # <<>> /\ \A i \in 1..Len(str) : IsDigit(str[i])

\* Variant: text that is no number is taken as 1 instead of raising.
ParseInt_lenient(raw) ==
    LET t == Strip(raw) IN
    IF AllDigits(t) THEN [ok |-> TRUE, value |-> DecimalValue(t)]
    ELSE [ok |-> TRUE, value |-> 1]

\* int(text): surrounding whitespace is ignored, an optional sign is
\* accepted, anything else raises ValueError.
ParseInt(raw) ==
    LET t == Strip(raw) IN
    IF AllDigits(t) THEN [ok |-> TRUE, value |-> DecimalValue(t)]
    ELSE IF t # <<>> /\ Head(t) = "-" /\ AllDigits(Tail(t))
         THEN [ok |-> TRUE, value |-> 0 - DecimalValue(Tail(t))]
    ELSE IF t # <<>> /\ Head(t) = "+" /\ AllDigits(Tail(t))
         THEN [ok |-> TRUE, value |-> DecimalValue(Tail(t))]
    ELSE [ok |-> FALSE, value |-> 0]

\* ------------------------------------------------------------ input sets
RawNames == {<<>>, <<" ">>, <<"a">>, <<" ", "a">>, <<"b">>}

RawPasswords == {<<>>, <<"p", " ">>, <<"q">>}

RawDescriptions == {<<>>, <<" ">>, <<"m">>, <<" ", "m">>}

RawChoices ==
    {<<"1">>, <<"2">>, <<"3">>, <<"4">>, <<"5">>, <<"9">>, <<" ", "1">>}

RawIds ==
    {<<Digits[i + 1]>> : i \in 1..(MaxId + 1)} \cup {<<" ", "1">>, <<"x">>}

Names == {Strip(r) : r \in RawNames} \ {<<>>}

Sessions == {1, 2}

\* current_user = None
None == <<"None">>

EmptyMap == [k \in {} |-> <<>>]

Put(m, k, v) == [x \in (DOMAIN m) \cup {k} |-> IF x = k THEN v ELSE m[x]]

\* ------------------------------------------------------------------ state
VARIABLES
    usersFile,      \* users.json: [exists, data]
    tasksDir,       \* TRUE when the tasks/ directory exists
    taskFiles,      \* file name -> persisted task list (absent: no file)
    pc,             \* per session: the input() the session is blocked on
    current_user,   \* per session: run_app's current_user
    users,          \* per session: the mapping loaded by load_users()
    tasks,          \* per session: the list loaded by load_tasks()
    username,       \* per session: register_user's accepted username
    last,           \* what the latest step read, printed, returned, wrote
    registered,     \* history: raw (username, password) pairs registered
    deletedIds,     \* history: per user, ids that were issued then deleted
    addsOnly,       \* history: per user, only adds ran on the fresh list
    issued          \* history: per user, (session, id) of each successful add

vars == <<usersFile, tasksDir, taskFiles, pc, current_user, users, tasks,
          username, last, registered, deletedIds, addsOnly, issued>>

store == <<usersFile, tasksDir, taskFiles>>

history == <<registered, deletedIds, addsOnly, issued>>

\* ----------------------------------------------------------- file helpers
\* Variant: the stored mapping is never read back.
load_users_missing == EmptyMap

load_users == IF usersFile.exists THEN usersFile.data ELSE EmptyMap

save_users(m) == [exists |-> TRUE, data |-> m]

\* Variant: the file name does not depend on the username.
get_user_tasks_file_shared(name) == <<"tasks/">> \o <<"_tasks.json">>

\* os.path.join(TASKS_DIR, f"{username}_tasks.json")
get_user_tasks_file(name) == <<"tasks/">> \o name \o <<"_tasks.json">>

load_tasks(name) ==
    IF get_user_tasks_file(name) \in DOMAIN taskFiles
    THEN taskFiles[get_user_tasks_file(name)]
    ELSE <<>>

save_tasks(name, list) == Put(taskFiles, get_user_tasks_file(name), list)

\* hashlib.sha256(password.encode()).hexdigest(): a digest that differs
\* from the password and is distinct for distinct passwords.
hash_password(password) == <<"sha256">> \o password

\* ------------------------------------------------------------------- Init
NoStep ==
    [s |-> 0, op |-> "none", input |-> <<>>, input2 |-> <<>>, msg |-> "",
     id |-> 0, result |-> None, known |-> FALSE,
     wroteUsers |-> FALSE, wroteTasks |-> FALSE, shown |-> <<>>]

InitWith(active) ==
    /\ usersFile = [exists |-> FALSE, data |-> EmptyMap]
    /\ tasksDir = FALSE
    /\ taskFiles = EmptyMap
    /\ pc = [s \in Sessions |-> IF s \in active THEN "auth_menu" ELSE "off"]
    /\ current_user = [s \in Sessions |-> None]
    /\ users = [s \in Sessions |-> EmptyMap]
    /\ tasks = [s \in Sessions |-> <<>>]
    /\ username = [s \in Sessions |-> <<>>]
    /\ last = NoStep
    /\ registered = {}
    /\ deletedIds = [n \in Names |-> {}]
    /\ addsOnly = [n \in Names |-> TRUE]
    /\ issued = [n \in Names |-> {}]

Init == InitWith({1})

Step(s, op, input, msg) ==
    [NoStep EXCEPT !.s = s, !.op = op, !.input = input, !.msg = msg]

\* ------------------------------------------------- run_app: the auth menu
ChooseLogin(s) ==
    /\ pc[s] = "auth_menu"
    /\ \E raw \in RawChoices :
        /\ Strip(raw) = <<"1">>
        /\ last' = Step(s, "auth_choice", raw, "")
    /\ users' = [users EXCEPT ![s] = load_users]
    /\ pc' = [pc EXCEPT ![s] = "login_input"]
    /\ UNCHANGED <<store, current_user, tasks, username, history>>

ChooseRegister(s) ==
    /\ pc[s] = "auth_menu"
    /\ \E raw \in RawChoices :
        /\ Strip(raw) = <<"2">>
        /\ last' = Step(s, "auth_choice", raw, "")
    /\ users' = [users EXCEPT ![s] = load_users]
    /\ pc' = [pc EXCEPT ![s] = "reg_username"]
    /\ UNCHANGED <<store, current_user, tasks, username, history>>

ChooseExit(s) ==
    /\ pc[s] = "auth_menu"
    /\ \E raw \in RawChoices :
        /\ Strip(raw) = <<"3">>
        /\ last' = Step(s, "exit", raw, "Exiting application. Goodbye!")
    /\ pc' = [pc EXCEPT ![s] = "exited"]
    /\ UNCHANGED <<store, current_user, users, tasks, username, history>>

AuthInvalidChoice(s) ==
    /\ pc[s] = "auth_menu"
    /\ \E raw \in RawChoices :
        /\ Strip(raw) \notin {<<"1">>, <<"2">>, <<"3">>}
        /\ last' = Step(s, "auth_invalid", raw,
                        "Invalid choice. Please try again.")
    /\ UNCHANGED <<store, pc, current_user, users, tasks, username, history>>

\* ------------------------------------------------------------- login_user
\* Variant: any password is accepted for a known username.
login_match_any_password(m, name, password) == name \in DOMAIN m

\* Variant: the stored value is compared with the password itself.
login_match_plain(m, name, password) ==
    name \in DOMAIN m /\ m[name] = password

\* users[username] == hash_password(password), guarded by username in users
login_match(m, name, password) ==
    name \in DOMAIN m /\ m[name] = hash_password(password)

\* Variant: an unknown username gets a message of its own.
login_outcome_enumerable(m, rawName, rawPassword) ==
    IF login_match(m, Strip(rawName), Strip(rawPassword))
    THEN [msg |-> "Welcome", result |-> Strip(rawName)]
    ELSE IF Strip(rawName) \in DOMAIN m
         THEN [msg |-> "Invalid username or password.", result |-> None]
    ELSE [msg |-> "Unknown username.", result |-> None]

\* What login_user prints and returns for the two lines typed.
login_outcome(m, rawName, rawPassword) ==
    IF login_match(m, Strip(rawName), Strip(rawPassword))
    THEN [msg |-> "Welcome", result |-> Strip(rawName)]
    ELSE [msg |-> "Invalid username or password.", result |-> None]

LoginInput(s) ==
    /\ pc[s] = "login_input"
    /\ \E rawName \in RawNames, rawPassword \in RawPasswords :
        LET out == login_outcome(users[s], rawName, rawPassword)
            known == Strip(rawName) \in DOMAIN users[s]
        IN
        /\ last' = [Step(s, "login", rawName, out.msg) EXCEPT
                        !.input2 = rawPassword, !.result = out.result,
                        !.known = known]
        /\ current_user' = [current_user EXCEPT ![s] = out.result]
        \* while current_user is None: ... / if current_user: main_menu(...)
        /\ pc' = [pc EXCEPT ![s] =
                    IF out.result = None THEN "auth_menu"
                    ELSE IF out.result # <<>> THEN "task_menu"
                    ELSE "exited"]
    /\ users' = [users EXCEPT ![s] = EmptyMap]
    /\ UNCHANGED <<store, tasks, username, history>>

\* ---------------------------------------------------------- register_user
\* Variant: a taken username is accepted (and later overwritten).
username_rejection_no_dup(m, name) ==
    IF name = <<>> THEN "Username cannot be empty." ELSE ""

\* "" when the line is accepted, else the message printed before re-prompting
username_rejection(m, name) ==
    IF name = <<>> THEN "Username cannot be empty."
    ELSE IF name \in DOMAIN m
         THEN "Username already exists. Please choose a different one."
    ELSE ""

password_rejected(password) == password = <<>>

RegUsername(s) ==
    /\ pc[s] = "reg_username"
    /\ \E raw \in RawNames :
        LET why == username_rejection(users[s], Strip(raw)) IN
        /\ last' = Step(s, "reg_username", raw, why)
        /\ IF why = ""
           THEN /\ username' = [username EXCEPT ![s] = Strip(raw)]
                /\ pc' = [pc EXCEPT ![s] = "reg_password"]
           ELSE UNCHANGED <<username, pc>>
    /\ UNCHANGED <<store, current_user, users, tasks, history>>

\* Variant: the mapping is read again after the prompts, just before the
\* insertion.
RegPassword_reloads(s) ==
    /\ pc[s] = "reg_password"
    /\ \E raw \in RawPasswords :
        IF password_rejected(Strip(raw))
        THEN /\ last' = [Step(s, "reg_password", raw,
                              "Password cannot be empty. Registration failed.")
                            EXCEPT !.result = <<"False">>]
             /\ UNCHANGED <<usersFile, registered>>
        ELSE LET m == Put(load_users, username[s], hash_password(Strip(raw))) IN
             /\ usersFile' = save_users(m)
             /\ registered' = registered \cup {<<username[s], raw>>}
             /\ last' = [Step(s, "reg_password", raw, "Registration successful!")
                            EXCEPT !.result = <<"True">>, !.wroteUsers = TRUE]
    /\ users' = [users EXCEPT ![s] = EmptyMap]
    /\ username' = [username EXCEPT ![s] = <<>>]
    /\ pc' = [pc EXCEPT ![s] = "auth_menu"]
    /\ UNCHANGED <<tasksDir, taskFiles, current_user, tasks, deletedIds,
                   addsOnly, issued>>

RegPassword(s) ==
    /\ pc[s] = "reg_password"
    /\ \E raw \in RawPasswords :
        IF password_rejected(Strip(raw))
        THEN /\ last' = [Step(s, "reg_password", raw,
                              "Password cannot be empty. Registration failed.")
                            EXCEPT !.result = <<"False">>]
             /\ UNCHANGED <<usersFile, registered>>
        ELSE LET m == Put(users[s], username[s], hash_password(Strip(raw))) IN
             /\ usersFile' = save_users(m)
             /\ registered' = registered \cup {<<username[s], raw>>}
             /\ last' = [Step(s, "reg_password", raw, "Registration successful!")
                            EXCEPT !.result = <<"True">>, !.wroteUsers = TRUE]
    /\ users' = [users EXCEPT ![s] = EmptyMap]
    /\ username' = [username EXCEPT ![s] = <<>>]
    /\ pc' = [pc EXCEPT ![s] = "auth_menu"]
    /\ UNCHANGED <<tasksDir, taskFiles, current_user, tasks, deletedIds,
                   addsOnly, issued>>

\* ------------------------------------------------------------- task lists
Task(id, description, status) ==
    [id |-> id, description |-> description, status |-> status]

IdsOf(list) == {list[i].id : i \in 1..Len(list)}

MaxOf(S) == CHOOSE x \in S : \A y \in S : y <= x

\* Variant: the id is the length of the list plus one.
next_task_id_by_length(list) == Len(list) + 1

\* Variant: the increment is forgotten.
next_task_id_no_increment(list) ==
    IF list = <<>> THEN 1 ELSE MaxOf(IdsOf(list))

\* task_id = 1 if not tasks else max(task['id'] for task in tasks) + 1
next_task_id(list) == IF list = <<>> THEN 1 ELSE MaxOf(IdsOf(list)) + 1

\* Variant: the record is created already completed.
new_task_completed(id, description) == Task(id, description, "Completed")

\* new_task = {'id': ..., 'description': ..., 'status': 'Pending'}
new_task(id, description) == Task(id, description, "Pending")

\* for task in tasks: if task['id'] == task_id: ...; found = True; break
first_match(list, id) ==
    IF id \in IdsOf(list)
    THEN CHOOSE i \in 1..Len(list) :
            list[i].id = id /\ \A j \in 1..(i - 1) : list[j].id # id
    ELSE 0

\* Variant: completing toggles the status.
completed_status_toggle(status) ==
    IF status = "Completed" THEN "Pending" ELSE "Completed"

\* task['status'] = 'Completed'
completed_status(status) == "Completed"

\* Variant: every record with the id is completed (no break).
mark_completed_all(list, id) ==
    [i \in 1..Len(list) |->
        IF list[i].id = id
        THEN [list[i] EXCEPT !.status = completed_status(list[i].status)]
        ELSE list[i]]

mark_completed(list, id) ==
    LET i == first_match(list, id) IN
    IF i = 0 THEN list
    ELSE [list EXCEPT ![i].status = completed_status(list[i].status)]

\* tasks = [task for task in tasks if task['id'] != task_id]
delete_keeps(task, id) == task.id # id

\* Variant: the id is used as a position in the list.
delete_by_position(list, id) ==
    IF id \in 1..Len(list)
    THEN SubSeq(list, 1, id - 1) \o SubSeq(list, id + 1, Len(list))
    ELSE list

delete_filter(list, id) ==
    LET Keep(t) == delete_keeps(t, id) IN SelectSeq(list, Keep)

\* Variant: the list is written back whether or not a task was found.
complete_saves_always(found) == TRUE

\* if found: save_tasks(...)
complete_saves(found) == found

\* if len(tasks) < initial_len: save_tasks(...)
delete_saves(initial_len, new_len) == new_len < initial_len

\* ------------------------------------------------- main_menu: the task menu
MenuAdd(s) ==
    /\ pc[s] = "task_menu"
    /\ next_task_id(load_tasks(current_user[s])) <= MaxId
    /\ \E raw \in RawChoices :
        /\ Strip(raw) = <<"1">>
        /\ last' = Step(s, "menu_choice", raw, "")
    /\ tasks' = [tasks EXCEPT ![s] = load_tasks(current_user[s])]
    /\ tasksDir' = TRUE
    /\ pc' = [pc EXCEPT ![s] = "add_desc"]
    /\ UNCHANGED <<usersFile, taskFiles, current_user, users, username,
                   history>>

\* view_tasks
MenuView(s) ==
    /\ pc[s] = "task_menu"
    /\ \E raw \in RawChoices :
        /\ Strip(raw) = <<"2">>
        /\ last' = [Step(s, "view", raw,
                         IF load_tasks(current_user[s]) = <<>>
                         THEN "No tasks found." ELSE "--- Your Tasks ---")
                        EXCEPT !.shown = load_tasks(current_user[s])]
    /\ tasksDir' = TRUE
    /\ addsOnly' = [addsOnly EXCEPT ![current_user[s]] = FALSE]
    /\ UNCHANGED <<usersFile, taskFiles, pc, current_user, users, tasks,
                   username, registered, deletedIds, issued>>

\* mark_task_completed up to its input()
MenuComplete(s) ==
    /\ pc[s] = "task_menu"
    /\ \E raw \in RawChoices :
        /\ Strip(raw) = <<"3">>
        /\ IF load_tasks(current_user[s]) = <<>>
           THEN /\ last' = Step(s, "complete", raw,
                                "No tasks to mark as completed.")
                /\ UNCHANGED <<pc, tasks>>
           ELSE /\ last' = [Step(s, "menu_choice", raw, "--- Your Tasks ---")
                                EXCEPT !.shown = load_tasks(current_user[s])]
                /\ pc' = [pc EXCEPT ![s] = "complete_id"]
                /\ tasks' = [tasks EXCEPT ![s] = load_tasks(current_user[s])]
    /\ tasksDir' = TRUE
    /\ addsOnly' = [addsOnly EXCEPT ![current_user[s]] = FALSE]
    /\ UNCHANGED <<usersFile, taskFiles, current_user, users, username,
                   registered, deletedIds, issued>>

\* delete_task up to its input()
MenuDelete(s) ==
    /\ pc[s] = "task_menu"
    /\ \E raw \in RawChoices :
        /\ Strip(raw) = <<"4">>
        /\ IF load_tasks(current_user[s]) = <<>>
           THEN /\ last' = Step(s, "delete", raw, "No tasks to delete.")
                /\ UNCHANGED <<pc, tasks>>
           ELSE /\ last' = [Step(s, "menu_choice", raw, "--- Your Tasks ---")
                                EXCEPT !.shown = load_tasks(current_user[s])]
                /\ pc' = [pc EXCEPT ![s] = "delete_id"]
                /\ tasks' = [tasks EXCEPT ![s] = load_tasks(current_user[s])]
    /\ tasksDir' = TRUE
    /\ addsOnly' = [addsOnly EXCEPT ![current_user[s]] = FALSE]
    /\ UNCHANGED <<usersFile, taskFiles, current_user, users, username,
                   registered, deletedIds, issued>>

\* choice '5': main_menu returns, and run_app returns after it
MenuLogout(s) ==
    /\ pc[s] = "task_menu"
    /\ \E raw \in RawChoices :
        /\ Strip(raw) = <<"5">>
        /\ last' = Step(s, "logout", raw, "Logging out...")
    /\ pc' = [pc EXCEPT ![s] = "exited"]
    /\ UNCHANGED <<store, current_user, users, tasks, username, history>>

\* Variant: an unrecognized choice leaves the menu loop.
MenuInvalidChoice_returns(s) ==
    /\ pc[s] = "task_menu"
    /\ \E raw \in RawChoices :
        /\ Strip(raw) \notin {<<"1">>, <<"2">>, <<"3">>, <<"4">>, <<"5">>}
        /\ last' = Step(s, "menu_invalid", raw,
                        "Invalid choice. Please try again.")
    /\ pc' = [pc EXCEPT ![s] = "exited"]
    /\ UNCHANGED <<store, current_user, users, tasks, username, history>>

MenuInvalidChoice(s) ==
    /\ pc[s] = "task_menu"
    /\ \E raw \in RawChoices :
        /\ Strip(raw) \notin {<<"1">>, <<"2">>, <<"3">>, <<"4">>, <<"5">>}
        /\ last' = Step(s, "menu_invalid", raw,
                        "Invalid choice. Please try again.")
    /\ UNCHANGED <<store, pc, current_user, users, tasks, username, history>>

\* Variant: a blank description is accepted.
description_rejected_never(description) == FALSE

\* if not description: print("Task description cannot be empty."); return
description_rejected(description) == description = <<>>

\* Variant: the list is read again after the prompt, just before the append.
AddDesc_reloads(s) ==
    /\ pc[s] = "add_desc"
    /\ \E raw \in RawDescriptions :
        IF description_rejected(Strip(raw))
        THEN /\ last' = Step(s, "add", raw, "Task description cannot be empty.")
             /\ UNCHANGED <<taskFiles, issued>>
        ELSE LET id == next_task_id(load_tasks(current_user[s]))
                 list == Append(load_tasks(current_user[s]),
                                new_task(id, Strip(raw)))
             IN
             /\ taskFiles' = save_tasks(current_user[s], list)
             /\ issued' = [issued EXCEPT ![current_user[s]] =
                                @ \cup {<<s, id>>}]
             /\ last' = [Step(s, "add", raw, "added successfully.")
                            EXCEPT !.id = id, !.wroteTasks = TRUE]
    /\ tasks' = [tasks EXCEPT ![s] = <<>>]
    /\ pc' = [pc EXCEPT ![s] = "task_menu"]
    /\ UNCHANGED <<usersFile, tasksDir, current_user, users, username,
                   registered, deletedIds, addsOnly>>

\* add_task from its input() on
AddDesc(s) ==
    /\ pc[s] = "add_desc"
    /\ \E raw \in RawDescriptions :
        IF description_rejected(Strip(raw))
        THEN /\ last' = Step(s, "add", raw, "Task description cannot be empty.")
             /\ UNCHANGED <<taskFiles, issued>>
        ELSE LET id == next_task_id(tasks[s])
                 list == Append(tasks[s], new_task(id, Strip(raw)))
             IN
             /\ taskFiles' = save_tasks(current_user[s], list)
             /\ issued' = [issued EXCEPT ![current_user[s]] =
                                @ \cup {<<s, id>>}]
             /\ last' = [Step(s, "add", raw, "added successfully.")
                            EXCEPT !.id = id, !.wroteTasks = TRUE]
    /\ tasks' = [tasks EXCEPT ![s] = <<>>]
    /\ pc' = [pc EXCEPT ![s] = "task_menu"]
    /\ UNCHANGED <<usersFile, tasksDir, current_user, users, username,
                   registered, deletedIds, addsOnly>>

\* mark_task_completed from its input() on
CompleteId(s) ==
    /\ pc[s] = "complete_id"
    /\ \E raw \in RawIds :
        LET n == ParseInt(raw)
            found == n.ok /\ first_match(tasks[s], n.value) # 0
            list == mark_completed(tasks[s], n.value)
        IN
        IF ~n.ok
        THEN /\ last' = Step(s, "complete", raw,
                             "Invalid input. Please enter a number.")
             /\ UNCHANGED taskFiles
        ELSE /\ IF complete_saves(found)
                THEN /\ taskFiles' = save_tasks(current_user[s], list)
                     /\ last' = [Step(s, "complete", raw, "marked as Completed.")
                                    EXCEPT !.id = n.value, !.wroteTasks = TRUE]
                ELSE /\ taskFiles' = taskFiles
                     /\ last' = [Step(s, "complete", raw, "not found.")
                                    EXCEPT !.id = n.value]
    /\ tasks' = [tasks EXCEPT ![s] = <<>>]
    /\ pc' = [pc EXCEPT ![s] = "task_menu"]
    /\ UNCHANGED <<usersFile, tasksDir, current_user, users, username, history>>

\* delete_task from its input() on
DeleteId(s) ==
    /\ pc[s] = "delete_id"
    /\ \E raw \in RawIds :
        LET n == ParseInt(raw)
            list == delete_filter(tasks[s], n.value)
        IN
        IF ~n.ok
        THEN /\ last' = Step(s, "delete", raw,
                             "Invalid input. Please enter a number.")
             /\ UNCHANGED <<taskFiles, deletedIds>>
        ELSE /\ IF delete_saves(Len(tasks[s]), Len(list))
                THEN /\ taskFiles' = save_tasks(current_user[s], list)
                     /\ deletedIds' = [deletedIds EXCEPT ![current_user[s]] =
                                            @ \cup {n.value}]
                     /\ last' = [Step(s, "delete", raw, "deleted successfully.")
                                    EXCEPT !.id = n.value, !.wroteTasks = TRUE]
                ELSE /\ UNCHANGED <<taskFiles, deletedIds>>
                     /\ last' = [Step(s, "delete", raw, "not found.")
                                    EXCEPT !.id = n.value]
    /\ tasks' = [tasks EXCEPT ![s] = <<>>]
    /\ pc' = [pc EXCEPT ![s] = "task_menu"]
    /\ UNCHANGED <<usersFile, tasksDir, current_user, users, username,
                   registered, addsOnly, issued>>

\* ------------------------------------------------------------------- Next
Next ==
    \E s \in Sessions :
        \/ ChooseLogin(s)
        \/ ChooseRegister(s)
        \/ ChooseExit(s)
        \/ AuthInvalidChoice(s)
        \/ LoginInput(s)
        \/ RegUsername(s)
        \/ RegPassword(s)
        \/ MenuAdd(s)
        \/ MenuView(s)
        \/ MenuComplete(s)
        \/ MenuDelete(s)
        \/ MenuLogout(s)
        \/ MenuInvalidChoice(s)
        \/ AddDesc(s)
        \/ CompleteId(s)
        \/ DeleteId(s)

Spec == Init /\ [][Next]_vars

\* ------------------------------------------------ a later run of run_app
\* The files an earlier run left behind: that run registered "b" (password
\* typed as "p "), logged in, added one task and logged out.
InitRerun ==
    /\ usersFile = save_users(Put(EmptyMap, <<"b">>, hash_password(<<"p">>)))
    /\ tasksDir = TRUE
    /\ taskFiles = Put(EmptyMap, get_user_tasks_file(<<"b">>),
                       <<new_task(1, <<"m">>)>>)
    /\ pc = [s \in Sessions |-> IF s = 1 THEN "auth_menu" ELSE "off"]
    /\ current_user = [s \in Sessions |-> None]
    /\ users = [s \in Sessions |-> EmptyMap]
    /\ tasks = [s \in Sessions |-> <<>>]
    /\ username = [s \in Sessions |-> <<>>]
    /\ last = NoStep
    /\ registered = {<<(<<"b">>), <<"p", " ">>>>}
    /\ deletedIds = [n \in Names |-> {}]
    /\ addsOnly = [n \in Names |-> TRUE]
    /\ issued = [n \in Names |-> IF n = <<"b">> THEN {<<1, 1>>} ELSE {}]

SpecRerun == InitRerun /\ [][Next]_vars

\* ------------------------------------------- a run over a corrupt document
\* As InitRerun, but the task document of "b" was edited outside the program
\* and holds records that share ids.
CorruptList ==
    <<new_task(1, <<"m">>), new_task(2, <<"m">>),
      new_task(1, <<"m">>), new_task(2, <<"m">>)>>

InitCorrupt ==
    /\ usersFile = save_users(Put(EmptyMap, <<"b">>, hash_password(<<"p">>)))
    /\ tasksDir = TRUE
    /\ taskFiles = Put(EmptyMap, get_user_tasks_file(<<"b">>), CorruptList)
    /\ pc = [s \in Sessions |-> IF s = 1 THEN "auth_menu" ELSE "off"]
    /\ current_user = [s \in Sessions |-> None]
    /\ users = [s \in Sessions |-> EmptyMap]
    /\ tasks = [s \in Sessions |-> <<>>]
    /\ username = [s \in Sessions |-> <<>>]
    /\ last = NoStep
    /\ registered = {<<(<<"b">>), <<"p", " ">>>>}
    /\ deletedIds = [n \in Names |-> {}]
    /\ addsOnly = [n \in Names |-> n # <<"b">>]
    /\ issued = [n \in Names |-> {}]

SpecCorrupt == InitCorrupt /\ [][Next]_vars

\* --------------------------------------- two runs of run_app side by side
\* Two processes started on the same directory; each step is one process
\* going from one input() to its next.
InitTwo == InitWith({1, 2})

\* Both processes in the authentication menu, login_user and register_user.
NextAuth ==
    \E s \in Sessions :
        \/ ChooseLogin(s)
        \/ ChooseRegister(s)
        \/ ChooseExit(s)
        \/ AuthInvalidChoice(s)
        \/ LoginInput(s)
        \/ RegUsername(s)
        \/ RegPassword(s)

SpecTwoAuth == InitTwo /\ [][NextAuth]_vars

\* Both processes logged in as "a" (registered with the password typed as
\* "p ") and in the task menu, before any task was added.
InitTwoTasks ==
    /\ usersFile = save_users(Put(EmptyMap, <<"a">>, hash_password(<<"p">>)))
    /\ tasksDir = FALSE
    /\ taskFiles = EmptyMap
    /\ pc = [s \in Sessions |-> "task_menu"]
    /\ current_user = [s \in Sessions |-> <<"a">>]
    /\ users = [s \in Sessions |-> EmptyMap]
    /\ tasks = [s \in Sessions |-> <<>>]
    /\ username = [s \in Sessions |-> <<>>]
    /\ last = NoStep
    /\ registered = {<<(<<"a">>), <<"p", " ">>>>}
    /\ deletedIds = [n \in Names |-> {}]
    /\ addsOnly = [n \in Names |-> TRUE]
    /\ issued = [n \in Names |-> {}]

\* Both processes adding and viewing tasks (no complete, no delete).
NextAdds ==
    \E s \in Sessions :
        \/ MenuAdd(s)
        \/ MenuView(s)
        \/ MenuLogout(s)
        \/ MenuInvalidChoice(s)
        \/ AddDesc(s)

SpecTwoAdds == InitTwoTasks /\ [][NextAdds]_vars

\* ----------------------------------------------------------- properties
FileList(files, name) ==
    IF get_user_tasks_file(name) \in DOMAIN files
    THEN files[get_user_tasks_file(name)]
    ELSE <<>>

Without(list, i) == SubSeq(list, 1, i - 1) \o SubSeq(list, i + 1, Len(list))

\* C1: once a (username, password) pair has been registered, login_user with
\* the same two lines succeeds and returns that username (as stored, i.e.
\* trimmed) in every later state, and a login that was made with such a pair
\* opened the task menu for that username.
C1_RegisterThenAuthenticate ==
    /\ \A r \in registered : \A rawName \in RawNames :
        Strip(rawName) = r[1] =>
            /\ login_outcome(load_users, rawName, r[2]).result = r[1]
            /\ login_outcome(load_users, rawName, r[2]).msg = "Welcome"
    /\ (last.op = "login" /\ <<Strip(last.input), last.input2>> \in registered)
        => /\ last.result = Strip(last.input)
           /\ current_user[last.s] = Strip(last.input)
           /\ pc[last.s] = "task_menu"

C1_Witness ==
    /\ last.op = "login"
    /\ <<Strip(last.input), last.input2>> \in registered
    /\ last.input # Strip(last.input)
    /\ last.input2 # Strip(last.input2)
    /\ Cardinality(registered) = 2

\* C2: a register attempt whose username line is empty or already taken, or
\* whose password line is empty, is rejected with a message, inserts nothing
\* in the account mapping and writes nothing; a taken username never gets as
\* far as the password prompt, whatever password would follow.
C2_RegisterRejectsWithoutWriting ==
    [][\A s \in Sessions :
        /\ (/\ pc[s] = "reg_username"
            /\ last'.s = s
            /\ \/ Strip(last'.input) = <<>>
               \/ Strip(last'.input) \in DOMAIN load_users)
            => /\ usersFile' = usersFile
               /\ ~last'.wroteUsers
               /\ last'.msg # ""
               /\ last'.result # <<"True">>
               /\ pc'[s] = "reg_username"
        /\ (/\ pc[s] = "reg_password"
            /\ last'.s = s
            /\ last'.input = <<>>)
            => /\ usersFile' = usersFile
               /\ ~last'.wroteUsers
               /\ last'.result = <<"False">>
               /\ pc'[s] = "auth_menu"
        /\ pc'[s] = "reg_password"
            => /\ username'[s] # <<>>
               /\ username'[s] \notin DOMAIN usersFile'.data]_vars

C2_Witness ==
    /\ last.op = "reg_username"
    /\ Strip(last.input) \in DOMAIN load_users
    /\ pc[last.s] = "reg_username"

\* C3: a failed login prints the same message and returns no identity
\* whether the username exists (wrong password) or does not exist, and it
\* leaves the same state behind: nothing persisted changes and the session is
\* back at the authentication menu with no identity.
C3_FailedLoginOutcomeUniform ==
    LET Failed(known) ==
            {login_outcome(load_users, n, p) :
                <<n, p>> \in {x \in RawNames \X RawPasswords :
                    /\ (Strip(x[1]) \in DOMAIN load_users) = known
                    /\ login_outcome(load_users, x[1], x[2]).result = None}}
    IN \A k \in Failed(TRUE), u \in Failed(FALSE) : k = u

C3_FailedLoginStep ==
    \A s \in Sessions :
        (pc[s] = "login_input" /\ last'.s = s /\ last'.result = None)
            => /\ last'.msg = "Invalid username or password."
               /\ store' = store
               /\ pc'[s] = "auth_menu"
               /\ current_user'[s] = None
               /\ users'[s] = EmptyMap
               /\ <<tasks, username, history>>' = <<tasks, username, history>>

C3_FailedLoginIndistinguishable ==
    [](C3_FailedLoginOutcomeUniform) /\ [][C3_FailedLoginStep]_vars

C3_Witness ==
    /\ last.op = "login"
    /\ last.result = None
    /\ last.known
    /\ \E n \in Names : n \notin DOMAIN load_users

\* C4: an add never issues an id that was issued before and then deleted.
C4_DeletedIdNeverReissued ==
    (last.op = "add" /\ last.wroteTasks)
        => last.id \notin deletedIds[current_user[last.s]]

\* C5: after logout the session is back at the authentication menu; the
\* process ends only through Exit at the authentication menu.
C5_LogoutReturnsToAuthMenu ==
    /\ last.op = "logout" => pc[last.s] = "auth_menu"
    /\ \A s \in Sessions :
        (pc[s] = "exited" /\ last.s = s) => last.op = "exit"

\* C6: the ids within one user's persisted task list are pairwise distinct.
C6_IdsUnique ==
    \A f \in DOMAIN taskFiles :
        \A i \in 1..Len(taskFiles[f]), j \in 1..Len(taskFiles[f]) :
            i # j => taskFiles[f][i].id # taskFiles[f][j].id

C6_Witness ==
    \E n \in Names :
        /\ deletedIds[n] # {}
        /\ Len(load_tasks(n)) >= 2
        /\ last.op = "add"
        /\ last.wroteTasks

\* C7: while only adds have run on a user's fresh list, the ids in it are
\* 1, 2, 3, ... in order.
C7_FreshAddsCountFromOne ==
    \A n \in Names :
        addsOnly[n] =>
            \A i \in 1..Len(load_tasks(n)) : load_tasks(n)[i].id = i

C7_Witness ==
    \E n \in Names :
        /\ addsOnly[n]
        /\ Len(load_tasks(n)) >= 3
        /\ last.op = "add"

\* C8: delete with a number that is no task's id leaves the persisted list
\* as it was and writes nothing; delete with an existing id removes that one
\* record and keeps all others, unchanged and in order.
C8_DeleteFrame ==
    [][\A s \in Sessions :
        (pc[s] = "delete_id" /\ last'.s = s /\ ParseInt(last'.input).ok)
            => LET id == ParseInt(last'.input).value
                   old == FileList(taskFiles, current_user[s])
                   new == FileList(taskFiles', current_user[s])
               IN
               /\ id \notin IdsOf(old)
                    => /\ taskFiles' = taskFiles
                       /\ ~last'.wroteTasks
                       /\ last'.msg = "not found."
               /\ id \in IdsOf(old)
                    => /\ \E i \in 1..Len(old) :
                            old[i].id = id /\ new = Without(old, i)
                       /\ last'.wroteTasks
                       /\ \A f \in DOMAIN taskFiles :
                            f # get_user_tasks_file(current_user[s])
                                => /\ f \in DOMAIN taskFiles'
                                   /\ taskFiles'[f] = taskFiles[f]]_vars

C8_Witness ==
    /\ last.op = "delete"
    /\ last.wroteTasks
    /\ \E i, j \in 1..Len(load_tasks(current_user[last.s])) :
        /\ load_tasks(current_user[last.s])[i].id < last.id
        /\ load_tasks(current_user[last.s])[j].id > last.id

\* C9: complete with a number that is no task's id leaves the persisted list
\* as it was, writes nothing, and reports that id as not found.
C9_CompleteNotFound ==
    [][\A s \in Sessions :
        (/\ pc[s] = "complete_id"
         /\ last'.s = s
         /\ ParseInt(last'.input).ok
         /\ ParseInt(last'.input).value
                \notin IdsOf(FileList(taskFiles, current_user[s])))
            => /\ taskFiles' = taskFiles
               /\ ~last'.wroteTasks
               /\ last'.msg = "not found."
               /\ last'.id = ParseInt(last'.input).value]_vars

C9_Witness ==
    /\ last.op = "complete"
    /\ last.msg = "not found."
    /\ ~last.wroteTasks
    /\ load_tasks(current_user[last.s]) # <<>>

\* C10: in every step, a record that appears is Pending, a record that stays
\* keeps its status or goes from Pending to Completed, and a Completed record
\* that stays is still Completed.
C10_StatusOneWay ==
    [][\A n \in Names :
        LET old == FileList(taskFiles, n)
            new == FileList(taskFiles', n)
        IN
        \A j \in 1..Len(new) :
            /\ new[j].status \in {"Pending", "Completed"}
            /\ new[j].id \notin IdsOf(old) => new[j].status = "Pending"
            /\ \A i \in 1..Len(old) :
                (old[i].id = new[j].id /\ old[i].status = "Completed")
                    => new[j].status = "Completed"]_vars

C10_Witness ==
    /\ last.op = "complete"
    /\ last.wroteTasks
    /\ \E n \in Names : \E i, j \in 1..Len(load_tasks(n)) :
        /\ load_tasks(n)[i].status = "Completed"
        /\ load_tasks(n)[i].id # last.id
        /\ load_tasks(n)[j].status = "Pending"

InTaskMenu(s) == pc[s] \in {"task_menu", "add_desc", "complete_id", "delete_id"}

C12_AccountsWriteOnce ==
    [][/\ usersFile.exists => usersFile'.exists
       /\ \A n \in DOMAIN usersFile.data :
            /\ n \in DOMAIN usersFile'.data
            /\ usersFile'.data[n] = usersFile.data[n]]_vars

C12_Witness ==
    /\ Cardinality(DOMAIN usersFile.data) = 2
    /\ last.op = "logout"
    /\ load_tasks(current_user[last.s]) # <<>>

\* C13: an add whose description is empty once trimmed changes no persisted
\* list, writes nothing and uses up no id.
C13_BlankDescriptionRejected ==
    [][\A s \in Sessions :
        (pc[s] = "add_desc" /\ last'.s = s /\ Strip(last'.input) = <<>>)
            => /\ taskFiles' = taskFiles
               /\ ~last'.wroteTasks
               /\ issued' = issued
               /\ last'.msg = "Task description cannot be empty."
               /\ pc'[s] = "task_menu"]_vars

C13_Witness ==
    /\ last.op = "add"
    /\ last.input = <<" ">>
    /\ ~last.wroteTasks
    /\ load_tasks(current_user[last.s]) # <<>>

\* C14: in the authentication menu and in the task menu a choice that is
\* none of the listed ones keeps the session in that menu with the same
\* identity, changes nothing persisted, and does not end the process.
C14_UnknownChoiceReprompts ==
    [][\A s \in Sessions :
        /\ (/\ pc[s] = "auth_menu"
            /\ last'.s = s
            /\ Strip(last'.input) \notin {<<"1">>, <<"2">>, <<"3">>})
            => /\ pc'[s] = "auth_menu"
               /\ current_user'[s] = current_user[s]
               /\ store' = store
               /\ last'.msg = "Invalid choice. Please try again."
        /\ (/\ pc[s] = "task_menu"
            /\ last'.s = s
            /\ Strip(last'.input)
                    \notin {<<"1">>, <<"2">>, <<"3">>, <<"4">>, <<"5">>})
            => /\ pc'[s] = "task_menu"
               /\ current_user'[s] = current_user[s]
               /\ store' = store
               /\ last'.msg = "Invalid choice. Please try again."]_vars

C14_Witness ==
    /\ last.op = "menu_invalid"
    /\ pc[last.s] = "task_menu"
    /\ load_tasks(current_user[last.s]) # <<>>

\* C15: complete or delete given text that is no number changes no persisted
\* list, writes nothing, and returns to the task menu still logged in.
C15_NonNumericIdAborts ==
    [][\A s \in Sessions :
        (/\ pc[s] \in {"complete_id", "delete_id"}
         /\ last'.s = s
         /\ \/ Strip(last'.input) = <<>>
            \/ \E i \in 1..Len(last'.input) :
                last'.input[i] \notin {" ", "0", "1", "2", "3", "4", "5", "6",
                                       "7", "8", "9"})
            => /\ taskFiles' = taskFiles
               /\ ~last'.wroteTasks
               /\ last'.msg = "Invalid input. Please enter a number."
               /\ pc'[s] = "task_menu"
               /\ current_user'[s] = current_user[s]
               /\ current_user[s] # None]_vars

C15_Witness ==
    /\ last.op \in {"complete", "delete"}
    /\ last.input = <<"x">>
    /\ pc[last.s] = "task_menu"

\* C16: a successful add puts exactly one record at the end of the list,
\* Pending, with id 1 on an empty list and otherwise one more than the
\* largest id, and keeps every earlier record as it was and where it was.
C16_AddAppends ==
    [][\A s \in Sessions :
        (pc[s] = "add_desc" /\ last'.s = s /\ Strip(last'.input) # <<>>)
            => LET old == FileList(taskFiles, current_user[s])
                   new == FileList(taskFiles', current_user[s])
               IN
               /\ Len(new) = Len(old) + 1
               /\ \A i \in 1..Len(old) : new[i] = old[i]
               /\ new[Len(new)].status = "Pending"
               /\ new[Len(new)].description = Strip(last'.input)
               /\ old = <<>> => new[Len(new)].id = 1
               /\ old # <<>> =>
                    /\ new[Len(new)].id - 1 \in IdsOf(old)
                    /\ \A i \in 1..Len(old) : old[i].id < new[Len(new)].id
               /\ last'.id = new[Len(new)].id]_vars

C16_Witness ==
    /\ last.op = "add"
    /\ last.wroteTasks
    /\ last.id = 3
    /\ LET list == load_tasks(current_user[last.s]) IN
        /\ Len(list) = 2
        /\ list[1].status = "Completed"

\* C17: a session is in the task menu only with an identity that is in
\* users.json, and it gets there only by a login whose password hashes to the
\* stored value; a failed login or a registration never enters the task menu.
C17_TaskMenuIdentityKnown ==
    \A s \in Sessions :
        InTaskMenu(s) => current_user[s] \in DOMAIN usersFile.data

C17_TaskMenuEntry ==
    \A s \in Sessions :
        (~InTaskMenu(s) /\ InTaskMenu(s)')
            => /\ pc[s] = "login_input"
               /\ last'.op = "login"
               /\ last'.s = s
               /\ current_user'[s] = Strip(last'.input)
               /\ Strip(last'.input) \in DOMAIN usersFile.data
               /\ usersFile.data[Strip(last'.input)]
                    = hash_password(Strip(last'.input2))

C17_TaskMenuOnlyAuthenticated ==
    [](C17_TaskMenuIdentityKnown) /\ [][C17_TaskMenuEntry]_vars

C17_Witness ==
    /\ pc[1] = "task_menu"
    /\ last.op = "login"
    /\ Cardinality(DOMAIN usersFile.data) = 2

RECURSIVE DropAll(_, _)
DropAll(list, id) ==
    IF list = <<>> THEN <<>>
    ELSE IF Head(list).id = id THEN DropAll(Tail(list), id)
    ELSE <<Head(list)>> \o DropAll(Tail(list), id)

\* C18: on a list in which several records share an id, complete changes the
\* status of the first record with the id only, and delete removes every
\* record with the id.
C18_DuplicateIds ==
    [][\A s \in Sessions :
        (/\ pc[s] \in {"complete_id", "delete_id"}
         /\ last'.s = s
         /\ ParseInt(last'.input).ok
         /\ ParseInt(last'.input).value
                \in IdsOf(FileList(taskFiles, current_user[s])))
            => LET id == ParseInt(last'.input).value
                   old == FileList(taskFiles, current_user[s])
                   new == FileList(taskFiles', current_user[s])
                   Matches == {i \in 1..Len(old) : old[i].id = id}
               IN
               /\ pc[s] = "complete_id" =>
                    /\ Len(new) = Len(old)
                    /\ \A i \in 1..Len(old) :
                        IF i \in Matches /\ \A j \in Matches : i <= j
                        THEN new[i] = [old[i] EXCEPT !.status = "Completed"]
                        ELSE new[i] = old[i]
               /\ pc[s] = "delete_id" =>
                    /\ new = DropAll(old, id)
                    /\ Len(new) = Len(old) - Cardinality(Matches)]_vars

C18_Witness ==
    /\ last.op = "delete"
    /\ last.wroteTasks
    /\ last.id = 2
    /\ issued[current_user[last.s]] = {}
    /\ LET list == load_tasks(current_user[last.s]) IN
        /\ Len(list) = 2
        /\ list[1].id = 1 /\ list[1].status = "Completed"
        /\ list[2].id = 1 /\ list[2].status = "Pending"

\* C19: with two processes on one user's document, a successful add writes
\* the list it loaded before the prompt plus the new record, whatever the
\* document holds by then, and reports success; so two adds can be given the
\* same id and the later write leaves only its own record.
C19_AddLastWriterWins ==
    [][\A s \in Sessions :
        (pc[s] = "add_desc" /\ last'.s = s /\ Strip(last'.input) # <<>>)
            => LET new == FileList(taskFiles', current_user[s])
                   n == Len(tasks[s])
               IN
               /\ Len(new) = n + 1
               /\ SubSeq(new, 1, n) = tasks[s]
               /\ new[n + 1].id =
                    IF n = 0 THEN 1 ELSE MaxOf(IdsOf(tasks[s])) + 1
               /\ last'.id = new[n + 1].id
               /\ last'.wroteTasks
               /\ last'.msg = "added successfully."]_vars

C19_Witness ==
    \E n \in Names : \E i \in 1..MaxId :
        /\ issued[n] = {<<1, i>>, <<2, i>>}
        /\ Len(load_tasks(n)) = 1
        /\ load_tasks(n)[1].id = i
        /\ last.op = "add"
        /\ last.wroteTasks

\* C20: with two processes registering, a username is checked against the
\* mapping loaded before the prompts and a successful registration writes
\* that mapping plus the new entry, whatever users.json holds by then, and
\* reports success; so an account the other process saved in between can be
\* dropped or have its hash replaced.
C20_RegisterOverwritesStale ==
    [][\A s \in Sessions :
        /\ (pc[s] = "reg_username" /\ last'.s = s)
            => ((pc'[s] = "reg_password")
                    <=> /\ Strip(last'.input) # <<>>
                        /\ Strip(last'.input) \notin DOMAIN users[s])
        /\ (pc[s] = "reg_password" /\ last'.s = s /\ Strip(last'.input) # <<>>)
            => /\ usersFile'.exists
               /\ usersFile'.data
                    = Put(users[s], username[s],
                          hash_password(Strip(last'.input)))
               /\ last'.result = <<"True">>]_vars

C20_Witness ==
    /\ last.op = "reg_password"
    /\ last.result = <<"True">>
    /\ Cardinality(registered) = 2
    /\ \E r \in registered : r[1] \notin DOMAIN usersFile.data

C20_WitnessReplaced ==
    /\ last.op = "reg_password"
    /\ last.result = <<"True">>
    /\ Cardinality(registered) = 2
    /\ \E r \in registered :
        /\ r[1] \in DOMAIN usersFile.data
        /\ usersFile.data[r[1]] # hash_password(Strip(r[2]))

TypeOK ==
    /\ usersFile.exists \in BOOLEAN
    /\ tasksDir \in BOOLEAN
    /\ \A s \in Sessions :
        pc[s] \in {"off", "auth_menu", "login_input", "reg_username",
                   "reg_password", "task_menu", "add_desc", "complete_id",
                   "delete_id", "exited"}

====
